---- MODULE Spec2Model ----
(***************************************************************************)
(* Model of the anonychat room chat client, src/app/chat/ChatComponent.tsx. *)
(*                                                                         *)
(* Several browser sessions (Clients) render the ChatPage component.  Each *)
(* session holds the component's React state; the remote document store    *)
(* (Firestore) holds the room records and the rooms' message collections.  *)
(* One action is one event-loop turn of one session: a user event handler, *)
(* the continuation of an awaited remote call, or a subscription callback, *)
(* together with the re-render and the effects that the turn triggers.     *)
(*                                                                         *)
(* Atomicity: a remote call is modelled by one step at which the store     *)
(* serves it and the awaiting continuation runs.  Between the issue of a   *)
(* call and that step every other session (and this session's user) may   *)
(* act.                                                                    *)
(***************************************************************************)
EXTENDS Integers, Sequences, FiniteSets, TLC

\* ------------------------------------------------------------------ bounds

\* Navigations (changes of the query parameters) over all sessions.
MaxNav == 1
\* Message documents created over all sessions.
MaxMsgs == 2
\* Edits issued over all sessions.
MaxEdits == 2
\* The count of delete-for-everyone updates of one message stops here.
MaxCount == 2
\* Unsettled message writes of one session.
MaxOutbox == 1
\* Times the page is opened over all sessions.
MaxMounts == 2

\* ------------------------------------------------------------- value sets

Clients == {"c1", "c2"}
Rooms == {"r1", "r2"}
\* searchParams.get("room") || "" : the empty room identifier.
NoRoom == ""
Passkeys == {"", "abc", "xyz"}
Names == {"ann", "bob"}
\* null / undefined, by the type of the value it stands in for.
None == "none"
NoId == 0
NoTs == [none |-> TRUE]
NoMessage == [id |-> NoId]
NoDoc == [exists |-> FALSE]
NoEntry == [present |-> FALSE]
NoSub == "nosub"

\* Text is a sequence of tokens; the token " " is white space.
Space == " "
Placeholder == <<"This message was deleted">>
\* What the users type.
Blank == <<Space>>
Hi == <<"hi">>
PaddedYo == <<Space, "yo", Space>>

\* threshold = 80 px.
Threshold == 80
Distances == {0, 80, 500}

ErrNoRoom == "No room specified."
ErrProtected == "This room is protected by a passkey. You must join with the correct passkey."
ErrFailed == "Failed to validate room. Please try again."

VARIABLES
  \* ---- remote store
  rooms,          \* room id -> None, or the room record
  msgs,           \* room id -> the room's message documents, in commit order
  clock,          \* the server clock, [seconds, nanoseconds]
  nextId,         \* the next fresh document id
  \* ---- one browser session each
  mounted,        \* the component is mounted
  nameQ, roomQ, passQ,  \* nameFromQuery, roomFromQuery, passkeyFromQuery
  roomAccess,     \* RoomAccessState
  checks,         \* the checkRoom calls in flight, oldest first
  sub,            \* the room whose messages onSnapshot listens to, or NoSub
  listeners,      \* the rooms with a listener of the session not yet unsubscribed
  messages, isConnected,
  input, replyTo, editingMessage, menuOpenFor,
  hiddenForMe, storage,
  isNearBottom, showScrollDown, listening, scrollDist,
  outbox,         \* message writes issued and not yet settled, oldest first
  \* ---- history
  ev,             \* the last step
  roomWrites,     \* room id -> number of setDoc writes the store applied
  dfeApplied,     \* message id -> number of delete-for-everyone updates applied
  textChanged,    \* message id -> a served update gave the message another text
  budget          \* events used, per bound

storeVars == <<rooms, msgs, clock, nextId>>
gateVars == <<roomAccess, checks, sub, listeners>>
propVars == <<mounted, nameQ, roomQ, passQ>>
listVars == <<messages, isConnected>>
formVars == <<input, replyTo, editingMessage, menuOpenFor>>
hiddenVars == <<hiddenForMe, storage>>
scrollVars == <<isNearBottom, showScrollDown, listening, scrollDist>>
histVars == <<roomWrites, dfeApplied, textChanged>>
vars == <<storeVars, propVars, gateVars, listVars, formVars, hiddenVars,
          scrollVars, outbox, ev, histVars, budget>>

\* --------------------------------------------------------- pure functions

Last(s) == s[Len(s)]
Front(s) == SubSeq(s, 1, Len(s) - 1)
Range(s) == { s[i] : i \in 1..Len(s) }
RemoveAt(s, k) == SubSeq(s, 1, k - 1) \o SubSeq(s, k + 1, Len(s))

\* String.prototype.trim on a token sequence.
RECURSIVE TrimLeft(_)
TrimLeft(s) == IF s # <<>> /\ Head(s) = Space THEN TrimLeft(Tail(s)) ELSE s
RECURSIVE TrimRight(_)
TrimRight(s) == IF s # <<>> /\ Last(s) = Space THEN TrimRight(Front(s)) ELSE s
\* Fault variant of Trim: the text is taken as typed.
TrimNone(s) == s
Trim(s) == TrimRight(TrimLeft(s))

\* A FirestoreTimestamp.
Ts(sec, nano) == [seconds |-> sec, nanoseconds |-> nano]
\* serverTimestamp(): the clock after the store has served one more write.
\* The clock moves on within the second or into the next second.
NextSecond(t) == Ts(t.seconds + 1, 0)
Ticks(t) == { Ts(t.seconds, t.nanoseconds + 1), NextSecond(t) }

\* JavaScript's a || b on numbers.
OrElse(a, b) == IF a # 0 THEN a ELSE b

\* Fault variant of Compare: the operands of the subtractions are swapped.
CompareSwapped(a, b) ==
  IF a.createdAt = NoTs \/ b.createdAt = NoTs THEN 0
  ELSE OrElse(b.createdAt.seconds - a.createdAt.seconds,
              b.createdAt.nanoseconds - a.createdAt.nanoseconds)

\* The comparator of sortedMessages.
Compare(a, b) ==
  IF a.createdAt = NoTs \/ b.createdAt = NoTs THEN 0
  ELSE OrElse(a.createdAt.seconds - b.createdAt.seconds,
              a.createdAt.nanoseconds - b.createdAt.nanoseconds)

\* Array.prototype.sort with a comparator: a stable insertion sort.  Element
\* x moves left past every element that compares greater, and stops at the
\* first one that does not.
InsertSorted(s, x) ==
  LET stops == { i \in 1..Len(s) : Compare(s[i], x) <= 0 }
      k == IF stops = {} THEN 0 ELSE CHOOSE i \in stops : \A j \in stops : j <= i
  IN SubSeq(s, 1, k) \o <<x>> \o SubSeq(s, k + 1, Len(s))
RECURSIVE ArraySort(_)
ArraySort(s) == IF s = <<>> THEN <<>> ELSE InsertSorted(ArraySort(Front(s)), Last(s))

\* messages.filter((m) => !hiddenForMe.has(m.id))
VisibleOf(list, hidden) == SelectSeq(list, LAMBDA m : m.id \notin Range(hidden))
\* [...visibleMessages].sort(...)
SortedOf(list, hidden) == ArraySort(VisibleOf(list, hidden))

\* The ChatMessage built from a document in the onSnapshot callback.
MessageOf(d) ==
  [id |-> d.id, text |-> d.text, name |-> d.name, createdAt |-> d.createdAt,
   replyToId |-> d.replyToId, deletedForEveryone |-> d.deletedForEveryone,
   editedAt |-> d.editedAt]

\* `hidden_${roomFromQuery}_${nameFromQuery}`
StorageKey(r, n) == "hidden_" \o r \o "_" \o n
\* Room identifiers and nicknames are free text of the query string: besides
\* those the sessions chat under, one of each that holds the separator.
KeyRooms == Rooms \cup {NoRoom, "r1_b"}
KeyNames == Names \cup {"b_ann"}
StorageKeys == { StorageKey(r, n) : r \in KeyRooms, n \in KeyNames }

\* The room document setDoc writes.
RoomDoc(p) ==
  [exists |-> TRUE, hasPasskey |-> p # "", passkey |-> IF p # "" THEN p ELSE None]

Truthy(v) == v # None /\ v # ""

Allowed == [loading |-> FALSE, allowed |-> TRUE, error |-> None]
Denied(e) == [loading |-> FALSE, allowed |-> FALSE, error |-> e]
Pending == [loading |-> TRUE, allowed |-> FALSE, error |-> None]

\* Fault variant of GateOutcome: the passkey is compared only if one is
\* supplied.
GateOutcomeLax(data, p) ==
  LET hasPasskey == data.hasPasskey /\ Truthy(data.passkey) IN
  IF ~hasPasskey THEN Allowed
  ELSE IF p = "" \/ p = data.passkey THEN Allowed ELSE Denied(ErrProtected)

\* The outcome of checkRoom for a room record that exists.
GateOutcome(data, p) ==
  LET hasPasskey == data.hasPasskey /\ Truthy(data.passkey) IN
  IF ~hasPasskey THEN Allowed
  ELSE IF p # "" /\ p = data.passkey THEN Allowed ELSE Denied(ErrProtected)



\* ----------------------------------------------------------- remote store

\* The documents of a message collection as one session's listener sees them:
\* the committed documents with the session's own unsettled writes applied on
\* top (latency compensation).  A pending serverTimestamp() reads as null, and
\* the query's orderBy("createdAt", "asc") puts a document with a pending
\* timestamp after every committed one.
ApplyUpdate(docs, w) ==
  [i \in 1..Len(docs) |->
     IF docs[i].id # w.id THEN docs[i]
     ELSE IF w.kind = "edit"
          THEN [docs[i] EXCEPT !.text = w.text, !.editedAt = NoTs]
          ELSE [docs[i] EXCEPT !.text = Placeholder, !.deletedForEveryone = TRUE]]
NewDoc(w, ts) ==
  [id |-> w.id, text |-> w.text, name |-> w.name, createdAt |-> ts,
   replyToId |-> w.replyToId, deletedForEveryone |-> FALSE, editedAt |-> NoTs]
RECURSIVE ApplyLocal(_, _, _)
ApplyLocal(docs, ws, r) ==
  IF ws = <<>> THEN docs
  ELSE LET w == Head(ws) IN
       IF w.room # r THEN ApplyLocal(docs, Tail(ws), r)
       ELSE IF w.kind = "add"
            THEN ApplyLocal(Append(docs, NewDoc(w, NoTs)), Tail(ws), r)
            ELSE ApplyLocal(ApplyUpdate(docs, w), Tail(ws), r)
LocalView(c, r) == ApplyLocal(msgs[r], outbox[c], r)

Ids(docs) == { docs[i].id : i \in 1..Len(docs) }

\* Fault variant of SnapshotOf: the documents not yet in the list are appended
\* to it (a delta merge).
SnapshotMerged(c, r) ==
  messages[c] \o SelectSeq([i \in 1..Len(LocalView(c, r)) |-> MessageOf(LocalView(c, r)[i])],
                           LAMBDA m : m.id \notin Ids(messages[c]))

\* snap.forEach(...) in the onSnapshot callback.
SnapshotOf(c, r) == [i \in 1..Len(LocalView(c, r)) |-> MessageOf(LocalView(c, r)[i])]

\* ------------------------------------------------------ render and effects

\* The chat view is rendered (neither early return of the render is taken), so
\* listRef, bottomRef, the form and the bubbles exist.
MainView(ra) == ~ra.loading /\ ra.allowed

\* The subscription effect: its cleanup unsubscribes, and it subscribes again
\* only if roomAccess.allowed and a room is given.
SubAfter(ra, r) == IF ra.allowed /\ r # NoRoom THEN r ELSE NoSub

\* Fault variant of ListenersAfter: the effect has no cleanup.
ListenersLeaked(c, s) == listeners[c] \cup ({s} \ {NoSub})

\* The listeners of session c after the subscription effect has left it with
\* subscription s: the cleanup `() => unsub()` detaches the listener the
\* previous run attached, and onSnapshot attaches the new one.
ListenersAfter(c, s) == (listeners[c] \ {sub[c]}) \cup ({s} \ {NoSub})

\* The scroll-listener effect, which runs once, after the first render: it
\* attaches handleScroll only if listRef.current is set by that render.
ListenerOnMount == MainView(Pending)

\* handleScroll at distance d from the bottom.
AtBottom(d) == d < Threshold

\* The auto-scroll effect: whether it calls scrollIntoView.
AutoScrolls(ra, list, hidden, near, n) ==
  /\ MainView(ra)
  /\ SortedOf(list, hidden) # <<>>
  /\ (near \/ Last(SortedOf(list, hidden)).name = n)

\* One session's scroll state after the auto-scroll effect has run (run = the
\* effect's dependencies changed).  scrollIntoView moves the viewport to the
\* bottom, and the scroll event it causes reaches handleScroll if attached.
ScrollAfter(c, run, ra, list, hidden, n) ==
  IF run /\ AutoScrolls(ra, list, hidden, isNearBottom[c], n)
  THEN [dist |-> 0,
        near |-> IF listening[c] THEN AtBottom(0) ELSE isNearBottom[c],
        show |-> IF listening[c] THEN ~AtBottom(0) ELSE showScrollDown[c],
        scrolled |-> TRUE]
  ELSE [dist |-> scrollDist[c], near |-> isNearBottom[c],
        show |-> showScrollDown[c], scrolled |-> FALSE]

SetScroll(c, sc) ==
  /\ scrollDist' = [scrollDist EXCEPT ![c] = sc.dist]
  /\ isNearBottom' = [isNearBottom EXCEPT ![c] = sc.near]
  /\ showScrollDown' = [showScrollDown EXCEPT ![c] = sc.show]
  /\ UNCHANGED listening

\* The localStorage load effect for key k: `if (!raw) return`.
LoadHidden(c, k) == IF ~storage[c][k].present THEN hiddenForMe[c] ELSE storage[c][k].ids

CancelAll(cs) == [i \in 1..Len(cs) |-> [cs[i] EXCEPT !.cancelled = TRUE]]
NewCheck(r, p) == [room |-> r, passkey |-> p, cancelled |-> FALSE, pc |-> "read"]

\* The gate effect for room r and passkey p: the cleanup of the previous run
\* sets its `cancelled`, then checkRoom() is started unless no room is given.
ChecksAfter(c, r, p) ==
  IF r = NoRoom THEN CancelAll(checks[c])
  ELSE Append(CancelAll(checks[c]), NewCheck(r, p))
AccessAfter(c, r) == IF r = NoRoom THEN Denied(ErrNoRoom) ELSE roomAccess[c]

Use(b) == budget' = [budget EXCEPT ![b] = @ + 1]

\* ------------------------------------------------------------------- Init

Init ==
  /\ rooms = [r \in Rooms |-> NoDoc]
  /\ msgs = [r \in Rooms |-> <<>>]
  /\ clock = Ts(1, 0)
  /\ nextId = 1
  /\ mounted = [c \in Clients |-> FALSE]
  /\ nameQ = [c \in Clients |-> None]
  /\ roomQ = [c \in Clients |-> NoRoom]
  /\ passQ = [c \in Clients |-> ""]
  /\ roomAccess = [c \in Clients |-> Pending]
  /\ checks = [c \in Clients |-> <<>>]
  /\ sub = [c \in Clients |-> NoSub]
  /\ listeners = [c \in Clients |-> {}]
  /\ messages = [c \in Clients |-> <<>>]
  /\ isConnected = [c \in Clients |-> FALSE]
  /\ input = [c \in Clients |-> <<>>]
  /\ replyTo = [c \in Clients |-> NoMessage]
  /\ editingMessage = [c \in Clients |-> NoMessage]
  /\ menuOpenFor = [c \in Clients |-> NoId]
  /\ hiddenForMe = [c \in Clients |-> <<>>]
  /\ storage = [c \in Clients |-> [k \in StorageKeys |-> NoEntry]]
  /\ isNearBottom = [c \in Clients |-> TRUE]
  /\ showScrollDown = [c \in Clients |-> FALSE]
  /\ listening = [c \in Clients |-> FALSE]
  /\ scrollDist = [c \in Clients |-> 0]
  /\ outbox = [c \in Clients |-> <<>>]
  /\ ev = [op |-> "init"]
  /\ roomWrites = [r \in Rooms |-> 0]
  /\ dfeApplied = [i \in 1..MaxMsgs |-> 0]
  /\ textChanged = [i \in 1..MaxMsgs |-> FALSE]
  /\ budget = [nav |-> 0, mounts |-> 0, edits |-> 0]


\* ------------------------------------------------- mount, navigate, unmount

\* The page is opened with name n, room r and passkey p: the first render
\* (roomAccess.loading) and the effects after it.
Open(c, n, r, p) ==
  /\ ~mounted[c]
  /\ budget.mounts < MaxMounts
  /\ Use("mounts")
  /\ mounted' = [mounted EXCEPT ![c] = TRUE]
  /\ nameQ' = [nameQ EXCEPT ![c] = n]
  /\ roomQ' = [roomQ EXCEPT ![c] = r]
  /\ passQ' = [passQ EXCEPT ![c] = p]
  /\ hiddenForMe' = [hiddenForMe EXCEPT ![c] = LoadHidden(c, StorageKey(r, n))]
  /\ checks' = [checks EXCEPT ![c] = ChecksAfter(c, r, p)]
  /\ roomAccess' = [roomAccess EXCEPT ![c] = AccessAfter(c, r)]
  /\ sub' = [sub EXCEPT ![c] = SubAfter(roomAccess'[c], r)]
  /\ listeners' = [listeners EXCEPT ![c] = ListenersAfter(c, sub'[c])]
  /\ listening' = [listening EXCEPT ![c] = ListenerOnMount]
  /\ ev' = [op |-> "open"]
  /\ UNCHANGED <<storeVars, listVars, formVars, storage, isNearBottom,
                 showScrollDown, scrollDist, outbox, histVars>>

\* The query parameters change while the component stays mounted: the
\* re-render, and the effects whose dependencies changed.
Navigate(c, n, r, p) ==
  /\ mounted[c]
  /\ <<n, r, p>> # <<nameQ[c], roomQ[c], passQ[c]>>
  /\ budget.nav < MaxNav
  /\ Use("nav")
  /\ nameQ' = [nameQ EXCEPT ![c] = n]
  /\ roomQ' = [roomQ EXCEPT ![c] = r]
  /\ passQ' = [passQ EXCEPT ![c] = p]
  /\ hiddenForMe' = [hiddenForMe EXCEPT ![c] =
       IF StorageKey(r, n) # StorageKey(roomQ[c], nameQ[c])
       THEN LoadHidden(c, StorageKey(r, n)) ELSE @]
  /\ IF <<r, p>> # <<roomQ[c], passQ[c]>>
     THEN /\ checks' = [checks EXCEPT ![c] = ChecksAfter(c, r, p)]
          /\ roomAccess' = [roomAccess EXCEPT ![c] = AccessAfter(c, r)]
     ELSE UNCHANGED <<checks, roomAccess>>
  /\ sub' = [sub EXCEPT ![c] = SubAfter(roomAccess'[c], r)]
  /\ listeners' = [listeners EXCEPT ![c] = ListenersAfter(c, sub'[c])]
  /\ SetScroll(c, ScrollAfter(c, n # nameQ[c] \/ hiddenForMe'[c] # hiddenForMe[c],
                              roomAccess'[c], messages[c], hiddenForMe'[c], n))
  /\ ev' = [op |-> "navigate", c |-> c, from |-> sub[c]]
  /\ UNCHANGED <<storeVars, mounted, listVars, formVars, storage, outbox, histVars>>

\* The component unmounts: every effect's cleanup runs and the state is
\* dropped.  Remote calls in flight stay in flight.
Unmount(c) ==
  /\ mounted[c]
  /\ mounted' = [mounted EXCEPT ![c] = FALSE]
  /\ checks' = [checks EXCEPT ![c] = CancelAll(@)]
  /\ outbox' = [outbox EXCEPT ![c] =
       [i \in 1..Len(outbox[c]) |-> [outbox[c][i] EXCEPT !.live = FALSE]]]
  /\ sub' = [sub EXCEPT ![c] = NoSub]
  /\ listeners' = [listeners EXCEPT ![c] = ListenersAfter(c, sub'[c])]
  /\ roomAccess' = [roomAccess EXCEPT ![c] = Pending]
  /\ messages' = [messages EXCEPT ![c] = <<>>]
  /\ isConnected' = [isConnected EXCEPT ![c] = FALSE]
  /\ input' = [input EXCEPT ![c] = <<>>]
  /\ replyTo' = [replyTo EXCEPT ![c] = NoMessage]
  /\ editingMessage' = [editingMessage EXCEPT ![c] = NoMessage]
  /\ menuOpenFor' = [menuOpenFor EXCEPT ![c] = NoId]
  /\ hiddenForMe' = [hiddenForMe EXCEPT ![c] = <<>>]
  /\ isNearBottom' = [isNearBottom EXCEPT ![c] = TRUE]
  /\ showScrollDown' = [showScrollDown EXCEPT ![c] = FALSE]
  /\ listening' = [listening EXCEPT ![c] = FALSE]
  /\ scrollDist' = [scrollDist EXCEPT ![c] = 0]
  /\ ev' = [op |-> "unmount"]
  /\ UNCHANGED <<storeVars, nameQ, roomQ, passQ, storage, histVars, budget>>

\* ------------------------------------------------------------- checkRoom

\* Fault variant of Resolve: `cancelled` is not consulted.
ResolveAlways(c, k, ra) ==
  /\ roomAccess' = [roomAccess EXCEPT ![c] = ra]
  /\ checks' = [checks EXCEPT ![c] = RemoveAt(@, k)]
  /\ sub' = [sub EXCEPT ![c] = IF mounted[c] THEN SubAfter(roomAccess'[c], roomQ[c]) ELSE @]
  /\ listeners' = [listeners EXCEPT ![c] = ListenersAfter(c, sub'[c])]

\* A finished checkRoom call sets roomAccess unless its `cancelled` is set;
\* the subscription effect follows the re-render.
Resolve(c, k, ra) ==
  /\ roomAccess' = [roomAccess EXCEPT ![c] = IF checks[c][k].cancelled THEN @ ELSE ra]
  /\ checks' = [checks EXCEPT ![c] = RemoveAt(@, k)]
  /\ sub' = [sub EXCEPT ![c] = IF mounted[c] THEN SubAfter(roomAccess'[c], roomQ[c]) ELSE @]
  /\ listeners' = [listeners EXCEPT ![c] = ListenersAfter(c, sub'[c])]

\* getDoc(roomRef) is served.  If the room is absent checkRoom goes on to
\* setDoc; otherwise it compares the passkey and finishes.
GetDoc(c, k) ==
  /\ k \in 1..Len(checks[c])
  /\ checks[c][k].pc = "read"
  /\ LET ck == checks[c][k] IN
     IF ~rooms[ck.room].exists
     THEN /\ checks' = [checks EXCEPT ![c][k].pc = "create"]
          /\ ev' = [op |-> "getDoc", c |-> c, exists |-> FALSE, room |-> ck.room,
                    passkey |-> ck.passkey, cancelled |-> ck.cancelled]
          /\ UNCHANGED <<roomAccess, sub, listeners>>
     ELSE /\ Resolve(c, k, GateOutcome(rooms[ck.room], ck.passkey))
          /\ ev' = [op |-> "getDoc", c |-> c, exists |-> TRUE, room |-> ck.room,
                    passkey |-> ck.passkey, cancelled |-> ck.cancelled]
  /\ UNCHANGED <<storeVars, propVars, listVars, formVars, hiddenVars, scrollVars,
                 outbox, histVars, budget>>

\* setDoc(roomRef, {...}) is served and checkRoom finishes as the creator.
SetDoc(c, k) ==
  /\ k \in 1..Len(checks[c])
  /\ checks[c][k].pc = "create"
  /\ rooms' = [rooms EXCEPT ![checks[c][k].room] = RoomDoc(checks[c][k].passkey)]
  /\ roomWrites' = [roomWrites EXCEPT ![checks[c][k].room] = @ + 1]
  /\ Resolve(c, k, Allowed)
  /\ ev' = [op |-> "setDoc", c |-> c, room |-> checks[c][k].room,
            passkey |-> checks[c][k].passkey, cancelled |-> checks[c][k].cancelled]
  /\ UNCHANGED <<msgs, clock, nextId, propVars, listVars, formVars, hiddenVars,
                 scrollVars, outbox, dfeApplied, textChanged, budget>>

\* Fault variant of CheckFail: a rejected setDoc is not caught.
CheckFailUncaught(c, k) ==
  /\ k \in 1..Len(checks[c])
  /\ Resolve(c, k, IF checks[c][k].pc = "create" THEN roomAccess[c] ELSE Denied(ErrFailed))
  /\ ev' = [op |-> "checkFail", c |-> c, room |-> checks[c][k].room,
            passkey |-> checks[c][k].passkey, cancelled |-> checks[c][k].cancelled,
            pc |-> checks[c][k].pc]
  /\ UNCHANGED <<storeVars, propVars, listVars, formVars, hiddenVars, scrollVars,
                 outbox, histVars, budget>>

\* getDoc or setDoc rejects: the catch branch of checkRoom.
CheckFail(c, k) ==
  /\ k \in 1..Len(checks[c])
  /\ Resolve(c, k, Denied(ErrFailed))
  /\ ev' = [op |-> "checkFail", c |-> c, room |-> checks[c][k].room,
            passkey |-> checks[c][k].passkey, cancelled |-> checks[c][k].cancelled,
            pc |-> checks[c][k].pc]
  /\ UNCHANGED <<storeVars, propVars, listVars, formVars, hiddenVars, scrollVars,
                 outbox, histVars, budget>>


\* ------------------------------------------------------------ subscription

\* The listener's snapshot callback: setMessages(msgs), setIsConnected(true),
\* then the auto-scroll effect.
Snapshot(c) ==
  /\ mounted[c]
  /\ \E r \in listeners[c] :
       /\ messages[c] # SnapshotOf(c, r) \/ ~isConnected[c]
       /\ messages' = [messages EXCEPT ![c] = SnapshotOf(c, r)]
  /\ isConnected' = [isConnected EXCEPT ![c] = TRUE]
  /\ LET sc == ScrollAfter(c, TRUE, roomAccess[c], messages'[c], hiddenForMe[c], nameQ[c])
     IN /\ SetScroll(c, sc)
        /\ ev' = [op |-> "snapshot", c |-> c, scrolled |-> sc.scrolled]
  /\ UNCHANGED <<storeVars, propVars, gateVars, formVars, hiddenVars, outbox,
                 histVars, budget>>

\* Fault variant of SubError: the list is cleared and the listener detached.
SubErrorTearsDown(c) ==
  /\ mounted[c]
  /\ listeners[c] # {}
  /\ isConnected[c]
  /\ isConnected' = [isConnected EXCEPT ![c] = FALSE]
  /\ messages' = [messages EXCEPT ![c] = <<>>]
  /\ sub' = [sub EXCEPT ![c] = NoSub]
  /\ listeners' = [listeners EXCEPT ![c] = {}]
  /\ ev' = [op |-> "subError", c |-> c]
  /\ UNCHANGED <<storeVars, propVars, roomAccess, checks, formVars, hiddenVars,
                 scrollVars, outbox, histVars, budget>>

\* The listener's error callback: setIsConnected(false).
SubError(c) ==
  /\ mounted[c]
  /\ listeners[c] # {}
  /\ isConnected[c]
  /\ isConnected' = [isConnected EXCEPT ![c] = FALSE]
  /\ ev' = [op |-> "subError", c |-> c]
  /\ UNCHANGED <<storeVars, propVars, gateVars, messages, formVars, hiddenVars,
                 scrollVars, outbox, histVars, budget>>

\* ------------------------------------------------------------ user events

\* The user scrolls the list to distance d from the bottom; handleScroll
\* runs if it is attached, and the auto-scroll effect if isNearBottom changed.
UserScroll(c, d) ==
  /\ mounted[c]
  /\ MainView(roomAccess[c])
  /\ d # scrollDist[c]
  /\ IF listening[c]
     THEN /\ isNearBottom' = [isNearBottom EXCEPT ![c] = AtBottom(d)]
          /\ showScrollDown' = [showScrollDown EXCEPT ![c] = ~AtBottom(d)]
          /\ scrollDist' = [scrollDist EXCEPT ![c] =
               IF AtBottom(d) # isNearBottom[c]
                  /\ AutoScrolls(roomAccess[c], messages[c], hiddenForMe[c],
                                 AtBottom(d), nameQ[c])
               THEN 0 ELSE d]
     ELSE /\ scrollDist' = [scrollDist EXCEPT ![c] = d]
          /\ UNCHANGED <<isNearBottom, showScrollDown>>
  /\ ev' = [op |-> "scroll"]
  /\ UNCHANGED <<storeVars, propVars, gateVars, listVars, formVars, hiddenVars,
                 listening, outbox, histVars, budget>>

\* onChange of the input (the input is disabled while not connected).
TypeInput(c, s) ==
  /\ mounted[c]
  /\ MainView(roomAccess[c])
  /\ isConnected[c]
  /\ s # input[c]
  /\ input' = [input EXCEPT ![c] = s]
  /\ ev' = [op |-> "type"]
  /\ UNCHANGED <<storeVars, propVars, gateVars, listVars, replyTo, editingMessage,
                 menuOpenFor, hiddenVars, scrollVars, outbox, histVars, budget>>

\* The bubbles the render shows, and the one whose action menu is open.
Shown(c) == IF MainView(roomAccess[c]) THEN SortedOf(messages[c], hiddenForMe[c]) ELSE <<>>
HasMenu(c, m) == m \in Range(Shown(c)) /\ ~m.deletedForEveryone
MenuOf(c) == { m \in Range(Shown(c)) : ~m.deletedForEveryone /\ menuOpenFor[c] = m.id }

\* What the render returns: the two early returns on roomAccess, then the
\* ternary of the messages area on isConnected and sortedMessages.length.
View(c) ==
  IF roomAccess[c].loading THEN "loading"
  ELSE IF ~roomAccess[c].allowed THEN "denied"
  ELSE IF ~isConnected[c] /\ Len(SortedOf(messages[c], hiddenForMe[c])) = 0 THEN "connecting"
  ELSE IF Len(SortedOf(messages[c], hiddenForMe[c])) = 0 THEN "empty"
  ELSE "list"
IsMine(c, m) == m.name = nameQ[c]

\* messageMap.get(id): the message of the full list with that id, or
\* undefined.
NoPreview == [shown |-> FALSE]
Lookup(list, id) ==
  LET at == { i \in 1..Len(list) : list[i].id = id }
  IN IF at = {} THEN NoMessage ELSE list[CHOOSE i \in at : \A j \in at : j <= i]

\* Fault variant of Replied: the target is looked up among the visible
\* messages.
RepliedVisible(c, m) ==
  IF m.replyToId # NoId
  THEN Lookup(VisibleOf(messages[c], hiddenForMe[c]), m.replyToId) ELSE NoMessage

\* const replied = m.replyToId ? messageMap.get(m.replyToId) : null
Replied(c, m) ==
  IF m.replyToId # NoId THEN Lookup(messages[c], m.replyToId) ELSE NoMessage

\* The reply preview of bubble m: {replied && !m.deletedForEveryone && ...}
\* shows replied.name and replied.text.
Preview(c, m) ==
  IF Replied(c, m) # NoMessage /\ ~m.deletedForEveryone
  THEN [shown |-> TRUE, name |-> Replied(c, m).name, text |-> Replied(c, m).text]
  ELSE NoPreview

\* handleBubbleMenuClick
BubbleMenuClick(c, m) ==
  /\ mounted[c]
  /\ HasMenu(c, m)
  /\ menuOpenFor' = [menuOpenFor EXCEPT ![c] = IF @ = m.id THEN NoId ELSE m.id]
  /\ ev' = [op |-> "menu"]
  /\ UNCHANGED <<storeVars, propVars, gateVars, listVars, input, replyTo,
                 editingMessage, hiddenVars, scrollVars, outbox, histVars, budget>>

\* Fault variant of HandleReply: the edit target is left as it is.
HandleReplyKeepsEdit(c, m) ==
  /\ mounted[c]
  /\ m \in MenuOf(c)
  /\ replyTo' = [replyTo EXCEPT ![c] = m]
  /\ menuOpenFor' = [menuOpenFor EXCEPT ![c] = NoId]
  /\ ev' = [op |-> "reply", c |-> c, id |-> m.id]
  /\ UNCHANGED <<storeVars, propVars, gateVars, listVars, input, editingMessage,
                 hiddenVars, scrollVars, outbox, histVars, budget>>

\* handleReply
HandleReply(c, m) ==
  /\ mounted[c]
  /\ m \in MenuOf(c)
  /\ replyTo' = [replyTo EXCEPT ![c] = m]
  /\ editingMessage' = [editingMessage EXCEPT ![c] = NoMessage]
  /\ menuOpenFor' = [menuOpenFor EXCEPT ![c] = NoId]
  /\ ev' = [op |-> "reply", c |-> c, id |-> m.id]
  /\ UNCHANGED <<storeVars, propVars, gateVars, listVars, input, hiddenVars,
                 scrollVars, outbox, histVars, budget>>

\* handleEdit for a bubble whose menu is open, with its scrollToBottom().
HandleEdit(c, m) ==
  /\ mounted[c]
  /\ m \in MenuOf(c)
  /\ IF m.name # nameQ[c]
     THEN UNCHANGED <<formVars, scrollVars>>
     ELSE /\ editingMessage' = [editingMessage EXCEPT ![c] = m]
          /\ replyTo' = [replyTo EXCEPT ![c] = NoMessage]
          /\ input' = [input EXCEPT ![c] = m.text]
          /\ menuOpenFor' = [menuOpenFor EXCEPT ![c] = NoId]
          /\ scrollDist' = [scrollDist EXCEPT ![c] = 0]
          /\ isNearBottom' = [isNearBottom EXCEPT ![c] =
               IF listening[c] THEN AtBottom(0) ELSE @]
          /\ showScrollDown' = [showScrollDown EXCEPT ![c] =
               IF listening[c] THEN ~AtBottom(0) ELSE @]
          /\ UNCHANGED listening
  /\ ev' = [op |-> "edit", c |-> c, id |-> m.id, ok |-> m.name = nameQ[c]]
  /\ UNCHANGED <<storeVars, propVars, gateVars, listVars, hiddenVars, outbox,
                 histVars, budget>>

\* The X button of the reply / edit banner.
CancelBanner(c) ==
  /\ mounted[c]
  /\ MainView(roomAccess[c])
  /\ replyTo[c] # NoMessage \/ editingMessage[c] # NoMessage
  /\ replyTo' = [replyTo EXCEPT ![c] = NoMessage]
  /\ editingMessage' = [editingMessage EXCEPT ![c] = NoMessage]
  /\ menuOpenFor' = [menuOpenFor EXCEPT ![c] = NoId]
  /\ ev' = [op |-> "cancel", c |-> c]
  /\ UNCHANGED <<storeVars, propVars, gateVars, listVars, input, hiddenVars,
                 scrollVars, outbox, histVars, budget>>

\* JSON.stringify(Array.from(set)) under a localStorage key.
Stored(h) == [present |-> TRUE, ids |-> h]

\* new Set(hiddenForMe).add(m.id), as the list Array.from gives.
AddHidden(h, id) == IF id \in Range(h) THEN h ELSE Append(h, id)

\* A message write as issued: an addDoc, or an updateDoc of kind "edit" or
\* "dfe" (delete for everyone).  `live` is cleared when the component unmounts
\* before the write settles.
Write(kind, r, id, text, n, reply) ==
  [kind |-> kind, room |-> r, id |-> id, text |-> text, name |-> n,
   replyToId |-> reply, live |-> TRUE]

\* Fault variant of HandleDeleteForMe: the message is also marked as deleted
\* in the remote store.
HandleDeleteForMeRemote(c, m) ==
  /\ mounted[c]
  /\ m \in MenuOf(c)
  /\ Len(outbox[c]) < MaxOutbox
  /\ hiddenForMe' = [hiddenForMe EXCEPT ![c] = AddHidden(@, m.id)]
  /\ storage' = [storage EXCEPT ![c][StorageKey(roomQ[c], nameQ[c])] =
                   Stored(AddHidden(hiddenForMe[c], m.id))]
  /\ outbox' = [outbox EXCEPT ![c] =
       Append(@, Write("dfe", roomQ[c], m.id, Placeholder, None, NoId))]
  /\ menuOpenFor' = [menuOpenFor EXCEPT ![c] = NoId]
  /\ SetScroll(c, ScrollAfter(c, TRUE, roomAccess[c], messages[c], hiddenForMe'[c],
                              nameQ[c]))
  /\ ev' = [op |-> "deleteForMe", c |-> c, id |-> m.id]
  /\ UNCHANGED <<storeVars, propVars, gateVars, listVars, input, replyTo,
                 editingMessage, histVars, budget>>

\* handleDeleteForMe with persistHidden, then the auto-scroll effect.
HandleDeleteForMe(c, m) ==
  /\ mounted[c]
  /\ m \in MenuOf(c)
  /\ hiddenForMe' = [hiddenForMe EXCEPT ![c] = AddHidden(@, m.id)]
  /\ storage' = [storage EXCEPT ![c][StorageKey(roomQ[c], nameQ[c])] =
                   Stored(AddHidden(hiddenForMe[c], m.id))]
  /\ menuOpenFor' = [menuOpenFor EXCEPT ![c] = NoId]
  /\ SetScroll(c, ScrollAfter(c, TRUE, roomAccess[c], messages[c], hiddenForMe'[c],
                              nameQ[c]))
  /\ ev' = [op |-> "deleteForMe", c |-> c, id |-> m.id]
  /\ UNCHANGED <<storeVars, propVars, gateVars, listVars, input, replyTo,
                 editingMessage, outbox, histVars, budget>>


\* replyTo?.id || null
ReplyId(rt) == IF rt = NoMessage THEN NoId ELSE rt.id

\* What handleSubmit does with the trimmed text: nothing, an updateDoc of the
\* message being edited, or an addDoc.
SubmitKind(text, r, ra, editing) ==
  IF text = <<>> \/ r = NoRoom \/ ~ra.allowed THEN "none"
  ELSE IF editing # NoMessage THEN "edit" ELSE "add"

\* handleSubmit up to its await.  The handler is the form's onSubmit and is
\* entered whenever the form is rendered, whatever the send button's state.
Submit(c) ==
  /\ mounted[c]
  /\ MainView(roomAccess[c])
  /\ LET text == Trim(input[c])
         kind == SubmitKind(text, roomQ[c], roomAccess[c], editingMessage[c])
     IN
     /\ kind = "edit" => budget.edits < MaxEdits
     /\ kind = "add" => nextId <= MaxMsgs
     /\ kind # "none" => Len(outbox[c]) < MaxOutbox
     /\ input' = [input EXCEPT ![c] = IF kind = "none" THEN @ ELSE <<>>]
     /\ outbox' = [outbox EXCEPT ![c] =
          IF kind = "edit"
          THEN Append(@, Write("edit", roomQ[c], editingMessage[c].id, text, None, NoId))
          ELSE IF kind = "add"
          THEN Append(@, Write("add", roomQ[c], nextId, text, nameQ[c], ReplyId(replyTo[c])))
          ELSE @]
     /\ nextId' = IF kind = "add" THEN nextId + 1 ELSE nextId
     /\ budget' = IF kind = "edit" THEN [budget EXCEPT !.edits = @ + 1] ELSE budget
     /\ ev' = [op |-> "submit", c |-> c, kind |-> kind, room |-> roomQ[c],
               input |-> input[c]]
  /\ UNCHANGED <<rooms, msgs, clock, propVars, gateVars, listVars, replyTo,
                 editingMessage, menuOpenFor, hiddenVars, scrollVars, histVars>>

\* handleDeleteForEveryone for a bubble whose menu is open, confirmed by the
\* user, up to its await.
HandleDeleteForEveryone(c, m) ==
  /\ mounted[c]
  /\ m \in MenuOf(c)
  /\ IF m.name # nameQ[c] \/ roomQ[c] = NoRoom
     THEN /\ ev' = [op |-> "deleteForEveryone", c |-> c, kind |-> "none", room |-> roomQ[c]]
          /\ UNCHANGED outbox
     ELSE /\ Len(outbox[c]) < MaxOutbox
          /\ outbox' = [outbox EXCEPT ![c] =
               Append(@, Write("dfe", roomQ[c], m.id, Placeholder, None, NoId))]
          /\ ev' = [op |-> "deleteForEveryone", c |-> c, kind |-> "dfe", room |-> roomQ[c]]
  /\ UNCHANGED <<storeVars, propVars, gateVars, listVars, formVars, hiddenVars,
                 scrollVars, histVars, budget>>

\* ------------------------------------------------------- writes are served

\* Fault variant of Updated: an edit replaces the document by the fields it
\* names (setDoc without merge).
UpdatedBySet(d, w, ts) ==
  IF w.kind = "edit"
  THEN [d EXCEPT !.text = w.text, !.editedAt = ts, !.name = None,
                 !.createdAt = NoTs, !.replyToId = NoId]
  ELSE [d EXCEPT !.text = Placeholder, !.deletedForEveryone = TRUE]

\* Fault variant of Updated: a delete for everyone flips the flag.
UpdatedByToggle(d, w, ts) ==
  IF w.kind = "edit" THEN [d EXCEPT !.text = w.text, !.editedAt = ts]
  ELSE [d EXCEPT !.text = Placeholder, !.deletedForEveryone = ~@]

\* The document an updateDoc leaves: only the fields it names change.
Updated(d, w, ts) ==
  IF w.kind = "edit" THEN [d EXCEPT !.text = w.text, !.editedAt = ts]
  ELSE [d EXCEPT !.text = Placeholder, !.deletedForEveryone = TRUE]

\* The collection after the store has served write w at time ts.
Served(docs, w, ts) ==
  IF w.kind = "add" THEN Append(docs, NewDoc(w, ts))
  ELSE [i \in 1..Len(docs) |-> IF docs[i].id = w.id THEN Updated(docs[i], w, ts) ELSE docs[i]]

\* updateDoc rejects if the document does not exist.
Accepted(w) == w.kind = "add" \/ w.id \in Ids(msgs[w.room])

\* The oldest unsettled write of session c is served at server time ts, and
\* the handler that awaits it goes on: setEditingMessage(null), setReplyTo(null) or
\* setMenuOpenFor(null).  A rejected updateDoc goes to the catch branch.
WriteDone(c, ts) ==
  /\ outbox[c] # <<>>
  /\ LET w == Head(outbox[c])
         ok == Accepted(w)
     IN
     /\ outbox' = [outbox EXCEPT ![c] = Tail(@)]
     /\ clock' = IF ok /\ w.kind # "dfe" THEN ts ELSE clock
     /\ ~(ok /\ w.kind # "dfe") => ts = NextSecond(clock)
     /\ msgs' = IF ok THEN [msgs EXCEPT ![w.room] = Served(@, w, clock')] ELSE msgs
     /\ dfeApplied' = IF ok /\ w.kind = "dfe"
                      THEN [dfeApplied EXCEPT ![w.id] = IF @ < MaxCount THEN @ + 1 ELSE @]
                      ELSE dfeApplied
     /\ textChanged' = IF ok /\ w.kind # "add" /\ msgs'[w.room] # msgs[w.room]
                       THEN [textChanged EXCEPT ![w.id] =
                               @ \/ \E i \in 1..Len(msgs[w.room]) :
                                      /\ msgs[w.room][i].id = w.id
                                      /\ msgs'[w.room][i].text # msgs[w.room][i].text]
                       ELSE textChanged
     /\ editingMessage' = [editingMessage EXCEPT ![c] =
          IF ok /\ w.live /\ w.kind = "edit" THEN NoMessage ELSE @]
     /\ replyTo' = [replyTo EXCEPT ![c] =
          IF ok /\ w.live /\ w.kind = "add" THEN NoMessage ELSE @]
     /\ menuOpenFor' = [menuOpenFor EXCEPT ![c] =
          IF ok /\ w.live /\ w.kind = "dfe" THEN NoId ELSE @]
     /\ ev' = [op |-> "writeDone", c |-> c, kind |-> w.kind, ok |-> ok, id |-> w.id,
               room |-> w.room, live |-> w.live]
  /\ UNCHANGED <<rooms, nextId, propVars, gateVars, listVars, input, hiddenVars,
                 scrollVars, roomWrites, budget>>

\* The oldest unsettled write of session c fails in transport: the catch
\* branch alerts.
WriteFail(c) ==
  /\ outbox[c] # <<>>
  /\ outbox' = [outbox EXCEPT ![c] = Tail(@)]
  /\ ev' = [op |-> "writeFail", c |-> c, kind |-> Head(outbox[c]).kind]
  /\ UNCHANGED <<storeVars, propVars, gateVars, listVars, formVars, hiddenVars,
                 scrollVars, histVars, budget>>

\* ------------------------------------------------------- specifications

AnyMessage(c) == Range(Shown(c))
AnyRoom == Rooms \cup {NoRoom}

\* The room gate: sessions open and change rooms and passkeys freely; nobody
\* writes a message.
NextGate ==
  \E c \in Clients :
    \/ \E r \in AnyRoom, p \in Passkeys : Open(c, "ann", r, p)
    \/ \E r \in AnyRoom, p \in Passkeys : Navigate(c, "ann", r, p)
    \/ Unmount(c)
    \/ \E k \in 1..Len(checks[c]) : GetDoc(c, k)
    \/ \E k \in 1..Len(checks[c]) : SetDoc(c, k)
    \/ \E k \in 1..Len(checks[c]) : CheckFail(c, k)

SpecGate == Init /\ [][NextGate]_vars

\* What every specification below shares: session c joins room r as n with
\* passkey p, its gate check runs, and its listener delivers snapshots.
Join(c, n, r, p) ==
  \/ Open(c, n, r, p)
  \/ \E k \in 1..Len(checks[c]) : GetDoc(c, k)
  \/ \E k \in 1..Len(checks[c]) : SetDoc(c, k)
\* Session c sends messages with text from S.
Send(c, S) ==
  \/ \E s \in S : TypeInput(c, s)
  \/ Submit(c)
  \/ \E ts \in {NextSecond(clock)} : WriteDone(c, ts)

\* Writes and room changes: ann joins the public room r1, sends, edits and
\* deletes the first message, and changes to room r2.
First(c) == { m \in AnyMessage(c) : m.id = 1 }
NextWrites ==
  \/ Join("c1", "ann", "r1", "")
  \/ \E r \in Rooms : Navigate("c1", "ann", r, "")
  \/ Snapshot("c1")
  \/ Send("c1", {Hi})
  \/ \E m \in First("c1") : BubbleMenuClick("c1", m)
  \/ \E m \in First("c1") : HandleEdit("c1", m)
  \/ \E m \in First("c1") : HandleDeleteForEveryone("c1", m)

SpecWrites == Init /\ [][NextWrites]_vars

\* Replies: ann sends to room r1, replies to her message, hides it or deletes
\* it for everyone, and changes to room r2 with the reply target still chosen.
NextReply ==
  \/ Join("c1", "ann", "r1", "")
  \/ Navigate("c1", "ann", "r2", "")
  \/ Snapshot("c1")
  \/ Send("c1", {Hi})
  \/ \E m \in AnyMessage("c1") : BubbleMenuClick("c1", m)
  \/ \E m \in First("c1") : HandleReply("c1", m)
  \/ \E m \in First("c1") : HandleDeleteForMe("c1", m)
  \/ \E m \in AnyMessage("c1") : HandleDeleteForEveryone("c1", m)

SpecReply == Init /\ [][NextReply]_vars

\* The local list: ann sends to room r1, edits, hides and deletes her first
\* message; her writes and her listener may fail.
NextEcho ==
  \/ Join("c1", "ann", "r1", "")
  \/ Snapshot("c1")
  \/ SubError("c1")
  \/ Send("c1", {Hi})
  \/ WriteFail("c1")
  \/ \E m \in First("c1") : BubbleMenuClick("c1", m)
  \/ \E m \in First("c1") : HandleEdit("c1", m)
  \/ \E m \in First("c1") : HandleDeleteForMe("c1", m)
  \/ \E m \in First("c1") : HandleDeleteForEveryone("c1", m)

SpecEcho == Init /\ [][NextEcho]_vars

\* Listening: ann opens, changes and leaves rooms (with or without a room
\* identifier), her gate checks may fail, she sends, and her listener delivers
\* snapshots and errors.
NextListen ==
  \/ \E r \in AnyRoom : Open("c1", "ann", r, "")
  \/ \E r \in AnyRoom : Navigate("c1", "ann", r, "")
  \/ Unmount("c1")
  \/ \E k \in 1..Len(checks["c1"]) : GetDoc("c1", k)
  \/ \E k \in 1..Len(checks["c1"]) : SetDoc("c1", k)
  \/ \E k \in 1..Len(checks["c1"]) : CheckFail("c1", k)
  \/ Snapshot("c1")
  \/ SubError("c1")
  \/ Send("c1", {Hi})

SpecListen == Init /\ [][NextListen]_vars

\* Nickname change: ann sends to room r1, chooses to edit or delete her first
\* message, and the nickname parameter changes while the view stays mounted.
NextRename ==
  \/ Join("c1", "ann", "r1", "")
  \/ \E n \in Names : Navigate("c1", n, "r1", "")
  \/ Snapshot("c1")
  \/ Send("c1", {Hi})
  \/ \E m \in First("c1") : BubbleMenuClick("c1", m)
  \/ \E m \in First("c1") : HandleEdit("c1", m)
  \/ \E m \in First("c1") : HandleDeleteForEveryone("c1", m)

SpecRename == Init /\ [][NextRename]_vars

\* The rendered list: ann and bob send to room r1 and ann hides messages; the server clock moves on within
\* the second or into the next.
NextList ==
  \/ \E c \in Clients : Join(c, IF c = "c1" THEN "ann" ELSE "bob", "r1", "")
  \/ \E c \in Clients : \E s \in {Hi} : TypeInput(c, s)
  \/ \E c \in Clients : Submit(c)
  \/ \E c \in Clients : \E ts \in Ticks(clock) : WriteDone(c, ts)
  \/ \E c \in Clients : Snapshot(c)
  \/ \E m \in AnyMessage("c1") : BubbleMenuClick("c1", m)
  \/ \E m \in AnyMessage("c1") : HandleDeleteForMe("c1", m)

SpecList == Init /\ [][NextList]_vars

\* Editing on one device: ann sends, replies, edits and cancels in room r1,
\* also with nothing but white space typed; a write of hers may fail, and so
\* may her listener before its first message.
NextEdit ==
  \/ Join("c1", "ann", "r1", "")
  \/ Snapshot("c1")
  \/ nextId = 1 /\ SubError("c1")
  \/ Send("c1", {Blank, PaddedYo})
  \/ \E m \in AnyMessage("c1") : BubbleMenuClick("c1", m)
  \/ \E m \in AnyMessage("c1") : HandleReply("c1", m)
  \/ \E m \in AnyMessage("c1") : HandleEdit("c1", m)
  \/ CancelBanner("c1")
  \/ WriteFail("c1")

SpecEdit == Init /\ [][NextEdit]_vars

\* Editing on two devices: ann is in room r1 on both; on the first she sends
\* and replies, and on both she edits her replies.
Replies(c) == { m \in AnyMessage(c) : m.replyToId # NoId }
NextCoedit ==
  \/ \E c \in Clients : Join(c, "ann", "r1", "")
  \/ \E c \in Clients : Snapshot(c)
  \/ \E c \in Clients : Send(c, IF c = "c1" THEN {Hi} ELSE {})
  \/ \E m \in AnyMessage("c1") : BubbleMenuClick("c1", m)
  \/ \E m \in AnyMessage("c1") : HandleReply("c1", m)
  \/ \E m \in Replies("c2") : BubbleMenuClick("c2", m)
  \/ \E c \in Clients : \E m \in Replies(c) : HandleEdit(c, m)

SpecCoedit == Init /\ [][NextCoedit]_vars

\* Deleting for everyone: ann sends to room r1 and deletes what she sent; bob
\* reads.
NextDelete ==
  \/ \E c \in Clients : Join(c, IF c = "c1" THEN "ann" ELSE "bob", "r1", "")
  \/ \E c \in Clients : Snapshot(c)
  \/ Send("c1", {Hi})
  \/ \E m \in AnyMessage("c1") : BubbleMenuClick("c1", m)
  \/ \E m \in AnyMessage("c1") : HandleDeleteForEveryone("c1", m)

SpecDelete == Init /\ [][NextDelete]_vars

\* Deleting for me: ann and bob are in room r1; ann sends, and both hide
\* messages on their own device.
NextHide ==
  \/ \E c \in Clients : Join(c, IF c = "c1" THEN "ann" ELSE "bob", "r1", "")
  \/ \E c \in Clients : Snapshot(c)
  \/ Send("c1", {Hi})
  \/ \E c \in Clients : \E m \in AnyMessage(c) : BubbleMenuClick(c, m)
  \/ \E c \in Clients : \E m \in AnyMessage(c) : HandleDeleteForMe(c, m)

SpecHide == Init /\ [][NextHide]_vars

\* Local storage: one device opens room r1 as ann, sends, hides messages,
\* changes room and nickname, and leaves and comes back.
NextStorage ==
  \/ Join("c1", "ann", "r1", "")
  \/ \E r \in Rooms, n \in Names : Navigate("c1", n, r, "")
  \/ Unmount("c1")
  \/ Snapshot("c1")
  \/ Send("c1", {Hi})
  \/ \E m \in AnyMessage("c1") : BubbleMenuClick("c1", m)
  \/ \E m \in AnyMessage("c1") : HandleDeleteForMe("c1", m)

SpecStorage == Init /\ [][NextStorage]_vars

\* Storage keys: two devices open the chat page under any room identifier and
\* nickname, change them, and leave.
NextKeys ==
  \E c \in Clients :
    \/ \E r \in KeyRooms, n \in KeyNames : Open(c, n, r, "")
    \/ \E r \in KeyRooms, n \in KeyNames : Navigate(c, n, r, "")
    \/ Unmount(c)

SpecKeys == Init /\ [][NextKeys]_vars

\* Scrolling: ann and bob send to room r1; ann reads and scrolls.
NextScroll ==
  \/ \E c \in Clients : Join(c, IF c = "c1" THEN "ann" ELSE "bob", "r1", "")
  \/ \E c \in Clients : Send(c, {Hi})
  \/ \E c \in Clients : Snapshot(c)
  \/ \E d \in Distances : UserScroll("c1", d)

SpecScroll == Init /\ [][NextScroll]_vars

\* ------------------------------------------------------------------ claims

\* The gate check of session c for its current room and passkey has finished:
\* no checkRoom call that may still set roomAccess is in flight.
GateResolved(c) ==
  /\ mounted[c]
  /\ roomQ[c] # NoRoom
  /\ \A k \in 1..Len(checks[c]) : checks[c][k].cancelled
GateAllowed(c) == GateResolved(c) /\ roomAccess[c].allowed /\ ~roomAccess[c].loading

\* C1: a gate check whose getDoc finds the room record, and which is not
\* cancelled, ends allowed if the record has no passkey, and otherwise allowed
\* exactly when the supplied passkey is non-empty and equals the stored one;
\* else it ends denied with the protected-room error.
C1_GateOutcome ==
  [][ (ev'.op = "getDoc" /\ ev'.exists /\ ~ev'.cancelled) =>
        LET data == rooms[ev'.room]
            ok == data.passkey = None
                  \/ (ev'.passkey # "" /\ ev'.passkey = data.passkey)
        IN roomAccess'[ev'.c] =
             IF ok THEN [loading |-> FALSE, allowed |-> TRUE, error |-> None]
             ELSE [loading |-> FALSE, allowed |-> FALSE, error |-> ErrProtected] ]_vars

\* C1 witness: a room created with passkey "abc", and a later session that
\* supplied no passkey has just been denied.
C1_Witness ==
  /\ ev.op = "getDoc" /\ ev.exists /\ ~ev.cancelled
  /\ rooms[ev.room].passkey = "abc"
  /\ ev.passkey = ""
  /\ roomAccess[ev.c] = Denied(ErrProtected)

\* C2: a room record is written at most once, over all sessions and all
\* interleavings of their gate checks.
C2_RoomWrittenOnce == \A r \in Rooms : roomWrites[r] <= 1

\* C3: a subscription is open only to the current room, and only once the
\* gate check for the current room and passkey has resolved to allowed.
C3_SubscribedOnlyIfAllowed ==
  \A c \in Clients : sub[c] # NoSub => sub[c] = roomQ[c] /\ GateAllowed(c)


\* C4: a message write (addDoc, or updateDoc for an edit or a delete for
\* everyone) is issued against the current room only when the gate check for
\* the current room and passkey has resolved to allowed.
C4_WritesOnlyIfAllowed ==
  (ev.op \in {"submit", "deleteForEveryone"} /\ ev.kind # "none") =>
    ev.room = roomQ[ev.c] /\ GateAllowed(ev.c)

\* (seconds, nanoseconds) of a is not after that of b.
TsLeq(a, b) ==
  \/ a.seconds < b.seconds
  \/ a.seconds = b.seconds /\ a.nanoseconds <= b.nanoseconds

\* C5: the rendered list is in non-decreasing order of creation timestamp
\* (over the messages that have one) and holds no message whose identifier is
\* in the local visibility set.
C5_SortedAndVisible ==
  \A c \in Clients :
    LET s == SortedOf(messages[c], hiddenForMe[c]) IN
    /\ \A i, j \in 1..Len(s) :
         (i < j /\ s[i].createdAt # NoTs /\ s[j].createdAt # NoTs)
           => TsLeq(s[i].createdAt, s[j].createdAt)
    /\ \A i \in 1..Len(s) : s[i].id \notin Range(hiddenForMe[c])
    /\ \A i \in 1..Len(messages[c]) :
         messages[c][i].id \notin Range(hiddenForMe[c])
           => \E j \in 1..Len(s) : s[j] = messages[c][i]

\* C5 witness: ann's rendered list holds bob's message, which has a creation
\* timestamp, and after it one of her own that has none yet.
C5_Witness ==
  LET s == SortedOf(messages["c1"], hiddenForMe["c1"]) IN
  /\ Len(s) = 2
  /\ s[1].createdAt # NoTs /\ s[1].name = "bob"
  /\ s[2].createdAt = NoTs /\ s[2].name = "ann"

\* The documents of room r before and after a step agree on every field but
\* those in `free`.
SameBut(r, free) ==
  /\ Len(msgs'[r]) = Len(msgs[r])
  /\ \A i \in 1..Len(msgs[r]) :
       \A f \in DOMAIN msgs[r][i] \ free : msgs'[r][i][f] = msgs[r][i][f]

\* C6: a served edit changes no document's identifier, author name, creation
\* timestamp or reply target (nor anything else but text and edited
\* timestamp), however many edits were served before and from whichever
\* session.
C6_EditKeepsFrame ==
  [][ (ev'.op = "writeDone" /\ ev'.kind = "edit") =>
        \A r \in Rooms : SameBut(r, {"text", "editedAt"}) ]_vars

\* C6 witness: the second edit has just been served, from the second device,
\* on a message that is a reply.
C6_Witness ==
  /\ ev.op = "writeDone" /\ ev.kind = "edit" /\ ev.ok /\ ev.c = "c2"
  /\ budget.edits = 2
  /\ \E i \in 1..Len(msgs["r1"]) :
       /\ msgs["r1"][i].id = ev.id
       /\ msgs["r1"][i].replyToId # NoId
       /\ msgs["r1"][i].editedAt = clock
       /\ clock.seconds = 5

\* C7: a served delete-for-everyone leaves the document with the placeholder
\* text and the flag set and every other field as it was, and served on a
\* document that is already in that state it changes nothing.
C7_DeleteIdempotent ==
  [][ (ev'.op = "writeDone" /\ ev'.kind = "dfe" /\ ev'.ok) =>
        /\ \A r \in Rooms : SameBut(r, {"text", "deletedForEveryone"})
        /\ \A i \in 1..Len(msgs[ev'.room]) :
             msgs[ev'.room][i].id = ev'.id =>
               /\ msgs'[ev'.room][i].text = Placeholder
               /\ msgs'[ev'.room][i].deletedForEveryone
               /\ dfeApplied[ev'.id] >= 1 => msgs' = msgs ]_vars

\* C7 witness: delete-for-everyone has just been served for the second time
\* on the same message.
C7_Witness ==
  /\ ev.op = "writeDone" /\ ev.kind = "dfe" /\ ev.ok
  /\ dfeApplied[ev.id] = 2

\* C8: delete-for-me issues no remote call and changes no remote record; it
\* adds the identifier to the visibility set of the session's own device and
\* leaves the other device's set, storage and rendered list as they were.
C8_DeleteForMeLocal ==
  [][ ev'.op = "deleteForMe" =>
        /\ UNCHANGED <<rooms, msgs, clock, nextId, outbox>>
        /\ Range(hiddenForMe'[ev'.c]) = Range(hiddenForMe[ev'.c]) \cup {ev'.id}
        /\ \A d \in Clients \ {ev'.c} :
             /\ hiddenForMe'[d] = hiddenForMe[d]
             /\ storage'[d] = storage[d]
             /\ SortedOf(messages'[d], hiddenForMe'[d])
                  = SortedOf(messages[d], hiddenForMe[d]) ]_vars

\* C8 witness: ann has just hidden a message that bob's device renders, and
\* bob has hidden another one.
C8_Witness ==
  /\ ev.op = "deleteForMe" /\ ev.c = "c1"
  /\ ev.id \in Ids(Shown("c2"))
  /\ hiddenForMe["c2"] # <<>>
  /\ Range(hiddenForMe["c2"]) # Range(hiddenForMe["c1"])

AllSpaces(s) == \A i \in 1..Len(s) : s[i] = Space

\* C9: a submit whose input is empty or only white space issues no write and
\* leaves the input, the reply target and the edit target as they were.
C9_BlankSubmitNoop ==
  [][ (ev'.op = "submit" /\ AllSpaces(input[ev'.c])) =>
        /\ UNCHANGED <<rooms, msgs, clock, nextId, outbox>>
        /\ UNCHANGED <<input, replyTo, editingMessage>> ]_vars

\* C9 witness: a submit of white space has just been made while a message is
\* being edited.
C9_Witness ==
  /\ ev.op = "submit" /\ ev.kind = "none"
  /\ input[ev.c] = Blank
  /\ editingMessage[ev.c] # NoMessage

\* C10: when a snapshot brings a new newest message that the user did not
\* write while the viewport is farther from the bottom than the threshold, the
\* view does not auto-scroll and the "new messages" button is shown; otherwise
\* the view auto-scrolls.
C10_ScrollPolicy ==
  [][ ev'.op = "snapshot" =>
        LET c == ev'.c
            old == Shown(c)
            new == SortedOf(messages'[c], hiddenForMe'[c])
        IN (MainView(roomAccess[c]) /\ new # <<>> /\ (old = <<>> \/ Last(new) # Last(old)))
           => IF Last(new).name # nameQ[c] /\ scrollDist[c] > Threshold
              THEN ~ev'.scrolled /\ showScrollDown'[c]
              ELSE ev'.scrolled ]_vars


\* The messages of session c's full list that m replies to.
TargetsOf(c, m) == { t \in Range(messages[c]) : t.id = m.replyToId }

\* C11 as stated: every rendered reply shows the name and current text of its
\* target if the target is in the full local list, hidden or deleted for
\* everyone or not, and shows no preview if the target is absent.
C11_PreviewFromFullSet ==
  \A c \in Clients : \A m \in Range(Shown(c)) :
    m.replyToId # NoId =>
      IF TargetsOf(c, m) = {} THEN Preview(c, m) = NoPreview
      ELSE \E t \in TargetsOf(c, m) :
             Preview(c, m) = [shown |-> TRUE, name |-> t.name, text |-> t.text]

\* C11, amended: as above for a reply that is not itself deleted for
\* everyone; a reply that is deleted for everyone shows no preview.
C11_PreviewUnlessDeleted ==
  \A c \in Clients : \A m \in Range(Shown(c)) :
    m.replyToId # NoId =>
      IF TargetsOf(c, m) = {} \/ m.deletedForEveryone THEN Preview(c, m) = NoPreview
      ELSE \E t \in TargetsOf(c, m) :
             Preview(c, m) = [shown |-> TRUE, name |-> t.name, text |-> t.text]

\* C11 witness: ann's rendered reply shows the placeholder of its target,
\* which is deleted for everyone and hidden on her device.
C11_Witness ==
  \E m \in Range(Shown("c1")) :
    /\ m.replyToId \in Range(hiddenForMe["c1"])
    /\ Preview("c1", m) = [shown |-> TRUE, name |-> "ann", text |-> Placeholder]

\* List `list` holds exactly the documents `docs`, in their order, field by
\* field.
HoldsDocs(list, docs) ==
  /\ Len(list) = Len(docs)
  /\ \A i \in 1..Len(docs) :
       \A f \in {"id", "text", "name", "createdAt", "replyToId",
                 "deletedForEveryone", "editedAt"} : list[i][f] = docs[i][f]

\* C12: the local message list changes only at a snapshot callback of the
\* session, which replaces it by the whole contents of the snapshot; no send,
\* edit, delete for everyone, delete for me, failed write or listener error
\* changes it.
C12_ListIsLastSnapshot ==
  [][ \A c \in Clients :
        IF ev'.op = "snapshot" /\ ev'.c = c
        THEN \E r \in listeners[c] : HoldsDocs(messages'[c], LocalView(c, r))
        ELSE messages'[c] = messages[c] ]_vars

\* C12 witness: a snapshot has just replaced ann's list of two messages by
\* one of the same messages in which the first is deleted for everyone.
C12_Witness ==
  /\ ev.op = "snapshot" /\ ev.c = "c1"
  /\ Len(messages["c1"]) = 2
  /\ messages["c1"][1].deletedForEveryone
  /\ nextId = 3 /\ outbox["c1"] = <<>> /\ dfeApplied[1] >= 1

\* C13: a session has at most one listener attached; the listener is on the
\* current room, and there is none when the view is unmounted, has no room or
\* is not allowed.  Only the listener of the current room changes the local
\* message list or the live flag of a mounted view.
C13_OneSubscription ==
  [][ \A c \in Clients :
        /\ Cardinality(listeners'[c]) <= 1
        /\ listeners'[c] \subseteq {roomQ'[c]}
        /\ (~mounted'[c] \/ ~roomAccess'[c].allowed) => listeners'[c] = {}
        /\ (mounted'[c] /\ (messages'[c] # messages[c] \/ isConnected'[c] # isConnected[c]))
             => /\ sub[c] = roomQ[c] /\ roomQ[c] # NoRoom
                /\ ev'.op = "snapshot" => HoldsDocs(messages'[c], LocalView(c, roomQ[c])) ]_vars

\* C13 witness: a session that listened to room r1 has just changed to room
\* r2 and listens to r2 only.
C13_Witness ==
  /\ ev.op = "navigate" /\ ev.from = "r1"
  /\ listeners[ev.c] = {"r2"}

\* C14: the gate state of a session changes only when the view unmounts, when
\* it is given no room, or when a check that is not cancelled and was started
\* for the session's current room and passkey finishes; a check started for an
\* earlier room or passkey, or before an unmount, leaves it as it is.
C14_StaleCheckDiscarded ==
  [][ \A c \in Clients :
        roomAccess'[c] # roomAccess[c] =>
          \/ ev'.op = "unmount"
          \/ /\ ev'.op \in {"open", "navigate"}
             /\ roomQ'[c] = NoRoom /\ roomAccess'[c] = Denied(ErrNoRoom)
          \/ /\ ev'.op \in {"getDoc", "setDoc", "checkFail"}
             /\ ev'.c = c /\ ~ev'.cancelled /\ mounted[c]
             /\ ev'.room = roomQ[c] /\ ev'.passkey = passQ[c] ]_vars

\* C14 witness: the setDoc of a check started for another room than the
\* session's current one has just been served, and the gate is still pending.
C14_Witness ==
  /\ ev.op = "setDoc" /\ ev.cancelled
  /\ mounted[ev.c] /\ roomQ[ev.c] \in Rooms \ {ev.room}
  /\ roomAccess[ev.c] = Pending

\* C15: a listener error marks the connection not live, leaves the local
\* message list as it is, and detaches no listener.
C15_ErrorKeepsList ==
  [][ ev'.op = "subError" =>
        /\ ~isConnected'[ev'.c]
        /\ messages' = messages
        /\ sub' = sub /\ listeners' = listeners /\ listeners[ev'.c] # {} ]_vars

\* C15 witness: ann's listener has just failed while her list holds messages.
C15_Witness ==
  /\ ev.op = "subError"
  /\ messages[ev.c] # <<>>
  /\ ~isConnected[ev.c]
  /\ listeners[ev.c] = {roomQ[ev.c]}

\* C16: when the getDoc or the setDoc of a gate check that is not cancelled
\* fails, the gate becomes denied with the validation-failed error.
C16_FailedCheckDenied ==
  [][ (ev'.op = "checkFail" /\ ~ev'.cancelled) =>
        roomAccess'[ev'.c] =
          [loading |-> FALSE, allowed |-> FALSE, error |-> ErrFailed] ]_vars

\* C16 witness: a check read the room as absent, its setDoc has just failed,
\* and the session is denied.
C16_Witness ==
  /\ ev.op = "checkFail" /\ ev.pc = "create" /\ ~ev.cancelled
  /\ ~rooms[ev.room].exists
  /\ roomAccess[ev.c] = Denied(ErrFailed)

\* C17: an updateDoc of a message's text or soft-delete flag is issued only
\* by a session whose current nickname is the stored author name of that
\* message.
C17_OnlyAuthorUpdates ==
  (ev.op \in {"submit", "deleteForEveryone"} /\ ev.kind \in {"edit", "dfe"}) =>
    LET w == Last(outbox[ev.c]) IN
    \A r \in Rooms : \A i \in 1..Len(msgs[r]) :
      msgs[r][i].id = w.id => msgs[r][i].name = nameQ[ev.c]

\* C18: a stored message has an edited timestamp if and only if a served
\* update has changed its text since it was created.
C18_EditedIffChanged ==
  \A r \in Rooms : \A i \in 1..Len(msgs[r]) :
    (msgs[r][i].editedAt # NoTs) <=> textChanged[msgs[r][i].id]

\* A write of session ev'.c has just failed.
WriteFailed == ev'.op = "writeFail" \/ (ev'.op = "writeDone" /\ ~ev'.ok)

\* C19: a failed write is dropped, not retried, and its failure changes no
\* input, reply target, edit target or open menu; a failed edit that follows
\* its submit at once leaves the edit target selected and the input as it was
\* before the submit.
C19_FailedWriteKeepsState ==
  [][ WriteFailed =>
        /\ outbox'[ev'.c] = Tail(outbox[ev'.c])
        /\ UNCHANGED <<input, replyTo, editingMessage, menuOpenFor, storeVars>>
        /\ (ev.op = "submit" /\ ev.c = ev'.c /\ ev.kind = "edit" /\ ev'.kind = "edit")
             => /\ editingMessage'[ev'.c] # NoMessage
                /\ input'[ev'.c] = ev.input ]_vars

\* A gate check of session c for its current room and passkey is in flight.
GatePending(c) == \E k \in 1..Len(checks[c]) : ~checks[c][k].cancelled

\* C20: in every reachable state the rendered view of a mounted session is
\* loading while the gate check for the current room is pending; otherwise
\* access-denied while the gate is denied; otherwise connecting while the
\* subscription is not live and no message is listed; otherwise empty while no
\* message is listed; otherwise the message list.
C20_ViewPriority ==
  \A c \in Clients : mounted[c] =>
    View(c) =
      IF GatePending(c) THEN "loading"
      ELSE IF ~roomAccess[c].allowed THEN "denied"
      ELSE IF ~isConnected[c] /\ Len(SortedOf(messages[c], hiddenForMe[c])) = 0 THEN "connecting"
      ELSE IF Len(SortedOf(messages[c], hiddenForMe[c])) = 0 THEN "empty"
      ELSE "list"

\* The identifiers persisted on the device of session c under the entry of its
\* current room and nickname; none if there is no entry.
StoredNow(c) ==
  IF storage[c][StorageKey(roomQ[c], nameQ[c])].present
  THEN Range(storage[c][StorageKey(roomQ[c], nameQ[c])].ids)
  ELSE {}

\* C21: after any room or nickname change and any sequence of delete-for-me
\* actions, the in-memory visibility set of a mounted session equals the set
\* persisted under its current (room, nickname) key; with no stored entry it
\* is empty.
C21_HiddenEqualsStored ==
  \A c \in Clients : mounted[c] => Range(hiddenForMe[c]) = StoredNow(c)

\* The storage key of session c, as its render computes it.
KeyNow(c) == StorageKey(roomQ[c], nameQ[c])

\* C22: distinct (room, nickname) pairs have distinct storage keys: two
\* mounted sessions whose rooms or nicknames differ compute different keys.
C22_DistinctKeys ==
  \A c, d \in Clients :
    (mounted[c] /\ mounted[d] /\ <<roomQ[c], nameQ[c]>> # <<roomQ[d], nameQ[d]>>)
      => KeyNow(c) # KeyNow(d)

\* C23: the reply target and the edit target of a session are never both
\* set; selecting a reply clears the edit target, selecting an edit clears the
\* reply target, cancel clears both, and a send or an edit that succeeds while
\* the view is mounted clears the target it used.
C23_TargetsExclusive ==
  [][ /\ \A c \in Clients : replyTo'[c] = NoMessage \/ editingMessage'[c] = NoMessage
      /\ ev'.op = "reply" =>
            replyTo'[ev'.c].id = ev'.id /\ editingMessage'[ev'.c] = NoMessage
      /\ (ev'.op = "edit" /\ ev'.ok) =>
            editingMessage'[ev'.c].id = ev'.id /\ replyTo'[ev'.c] = NoMessage
      /\ ev'.op = "cancel" =>
            replyTo'[ev'.c] = NoMessage /\ editingMessage'[ev'.c] = NoMessage
      /\ (ev'.op = "writeDone" /\ ev'.ok /\ ev'.live /\ ev'.kind = "add") =>
            replyTo'[ev'.c] = NoMessage
      /\ (ev'.op = "writeDone" /\ ev'.ok /\ ev'.live /\ ev'.kind = "edit") =>
            editingMessage'[ev'.c] = NoMessage ]_vars

\* C23 witness: ann, who was editing her message (the input still holds its
\* text), has just chosen to reply to it instead.
C23_Witness ==
  /\ ev.op = "reply"
  /\ replyTo[ev.c] # NoMessage
  /\ input[ev.c] = replyTo[ev.c].text
  /\ editingMessage[ev.c] = NoMessage

\* C24: in the remote store a message whose deletedForEveryone flag is set
\* has the placeholder text, and the flag, once set, stays set, whatever the
\* order in which edits and deletes for everyone are served.
C24_DeletedKeepsPlaceholder ==
  [][ \A r \in Rooms : \A i \in 1..Len(msgs'[r]) :
        /\ msgs'[r][i].deletedForEveryone => msgs'[r][i].text = Placeholder
        /\ (i <= Len(msgs[r]) /\ msgs[r][i].deletedForEveryone)
             => msgs'[r][i].deletedForEveryone ]_vars

\* C25: a reply target or an edit target that the user selects while an
\* earlier send or edit of the session is in flight is still selected after
\* that write completes.
C25_LateSelectionSurvives ==
  [][ ( /\ ev'.op \in {"writeDone", "writeFail"}
        /\ ev'.kind \in {"add", "edit"}
        /\ ev.op = "reply" \/ (ev.op = "edit" /\ ev.ok)
        /\ ev.c = ev'.c )
      => /\ replyTo'[ev'.c] = replyTo[ev'.c]
         /\ editingMessage'[ev'.c] = editingMessage[ev'.c] ]_vars

\* C26: while the view is mounted, every message the chat view renders (and
\* so offers for reply, edit or delete) is a message of the current room: a
\* document of that room's collection or a pending write of the session to it.
C26_ListOfCurrentRoom ==
  \A c \in Clients : mounted[c] =>
    \A m \in Range(Shown(c)) :
      roomQ[c] \in Rooms /\ m.id \in Ids(LocalView(c, roomQ[c]))

\* C27: a gate check that has been cancelled performs no further remote
\* write: a checkRoom call whose getDoc finds no room record, and so goes on
\* to setDoc with its passkey, has not been cancelled by then.
C27_CancelledCheckWritesNothing ==
  (ev.op = "getDoc" /\ ~ev.exists) => ~ev.cancelled

====
